---- MODULE Spec2Model ----
(***************************************************************************)
(* Model of tools/amalgamate.py: the header amalgamation of byteweave.     *)
(*                                                                         *)
(* Paths and include fragments are sequences of path components, a line    *)
(* of a header is a record holding its kind, the file it belongs to, its   *)
(* number in that file, the version macro it mentions and (for an include) *)
(* the include fragment.  The recursion of inline_file is an explicit      *)
(* stack of frames, one step per processed line.                           *)
(***************************************************************************)
EXTENDS Naturals, Sequences, FiniteSets, TLC

(* ------------------------------ bounds --------------------------------- *)
\* most byteweave/ or foreign includes in the entry header
MaxEntryIncludes == 2

(* ----------------------- constants of the program ---------------------- *)
LOCAL_PREFIX   == "byteweave"
EXPORT_HEADER  == <<LOCAL_PREFIX, "export.hpp">>
VERSION_HEADER == <<LOCAL_PREFIX, "version.hpp">>
SYNTHESIZE_VERSION == <<"__SYNTHESIZE_VERSION__">>
None == <<>>

(* ------------------------------ paths ---------------------------------- *)
\* Path.resolve(): "." components vanish, ".." removes the component before
resolve(p) ==
  LET Walk[i \in 0..Len(p)] ==
        IF i = 0 THEN <<>>
        ELSE IF p[i] = "." THEN Walk[i - 1]
        ELSE IF p[i] = ".." THEN SubSeq(Walk[i - 1], 1, Len(Walk[i - 1]) - 1)
        ELSE Append(Walk[i - 1], p[i])
  IN  Walk[Len(p)]

\* repo_root / "include"
IncludeRoot == <<"include">>
\* the directory --generated names, when it is given
GeneratedDir == <<"build", "generated">>

(* --------------------------- the source tree --------------------------- *)
F_A       == <<LOCAL_PREFIX, "a.hpp">>
F_B       == <<LOCAL_PREFIX, "b.hpp">>
F_C       == <<LOCAL_PREFIX, "c.hpp">>
F_Entry   == <<LOCAL_PREFIX, "byteweave.hpp">>
F_Alias   == <<LOCAL_PREFIX, ".", "export.hpp">>
F_Vector  == <<"vector">>
F_Missing == <<LOCAL_PREFIX, "missing.hpp">>

P_Entry   == resolve(IncludeRoot \o F_Entry)
P_A       == resolve(IncludeRoot \o F_A)
P_B       == resolve(IncludeRoot \o F_B)
P_C       == resolve(IncludeRoot \o F_C)
P_Export  == resolve(IncludeRoot \o EXPORT_HEADER)
P_GenVer  == resolve(GeneratedDir \o VERSION_HEADER)

Macros == {"MAJOR", "MINOR", "PATCH", "STRING"}

\* a line before it is placed in a file
Pragma       == [k |-> "pragma",  mac |-> "none", frag |-> None]
Text         == [k |-> "text",    mac |-> "none", frag |-> None]
Define(m)    == [k |-> "text",    mac |-> m,      frag |-> None]
Uses         == [k |-> "text",    mac |-> "use_MAJOR", frag |-> None]
Include(fr)  == [k |-> "include", mac |-> "none", frag |-> fr]

\* the lines of file src: line i of the file carries src and i
FileText(src, ls) ==
  [i \in 1..Len(ls) |->
     [k |-> ls[i].k, src |-> src, n |-> i, mac |-> ls[i].mac, frag |-> ls[i].frag]]

RECURSIVE Interleave(_)
Interleave(incs) ==
  IF incs = <<>> THEN <<>>
  ELSE <<Include(Head(incs)), Text>> \o Interleave(Tail(incs))

EntryMenu == {F_A, F_B, EXPORT_HEADER, F_Vector}
AMenu     == {F_C, F_Entry, F_A, VERSION_HEADER, F_Alias, F_Missing}
BMenu     == {F_C, F_Vector}
CMenu     == {Text, Define("MINOR"), Define("MAJOR"), Uses}

SeqsUpTo(S, n) == UNION {[1..m -> S] : m \in 0..n}

\* the headers under include/ and the generated version header
Tree(incs, a, b, c) ==
  (P_Entry  :> FileText("byteweave.hpp", <<Pragma, Text>> \o Interleave(incs)))
  @@ (P_A   :> FileText("a.hpp", <<Pragma, Text, Include(a), Text>>))
  @@ (P_B   :> FileText("b.hpp", <<Pragma, Include(b), Text>>))
  @@ (P_C   :> FileText("c.hpp", <<Pragma, c>>))
  @@ (P_Export :> FileText("export.hpp", <<Pragma, Text>>))
  @@ (P_GenVer :> FileText("version.hpp",
         <<Pragma, Define("MAJOR"), Define("MINOR"), Define("PATCH"), Define("STRING")>>))

Trees ==
  {Tree(incs, a, b, c) : incs \in SeqsUpTo(EntryMenu, MaxEntryIncludes),
                         a \in AMenu, b \in BMenu, c \in CMenu}

\* what exists on disk besides the generated directory
SourceFiles == {P_A, P_B, P_C, P_Export}

(* ------------------------- pure helper functions ----------------------- *)
\* parse_include: the fragment of an include line, None for any other line
parse_include(line) == IF line.k = "include" THEN line.frag ELSE None

\* is_local_byteweave: the fragment starts with "byteweave/"
is_local_byteweave(inc) == Len(inc) >= 2 /\ inc[1] = LOCAL_PREFIX

\* the guard of the generated header overlooked
is_pragma_once_Missed(line) == line.k = "pragma" /\ line.src # "version.hpp"

\* line.strip().startswith("#pragma once")
is_pragma_once(line) == line.k = "pragma"

Digits == {"0", "1", "2", "3"}
Space  == {" "}
DigitValue(c) == CASE c = "0" -> 0 [] c = "1" -> 1 [] c = "2" -> 2 [] c = "3" -> 3

\* the regular expression of version_triplet, ^\s*(\d+)\.(\d+)\.(\d+)\s*$, as
\* an automaton: ph is the part of the expression the match is in, v the
\* integers of the three groups read so far
ScanStart == [ph |-> "lead", v |-> <<0, 0, 0>>]
ScanBad   == [ph |-> "bad",  v |-> <<0, 0, 0>>]
Digit(q, g, c, ph) == [ph |-> ph, v |-> [q.v EXCEPT ![g] = 10 * @ + DigitValue(c)]]
ScanStep(q, c) ==
  CASE q.ph = "lead"  -> IF c \in Space THEN q
                         ELSE IF c \in Digits THEN Digit(q, 1, c, "major") ELSE ScanBad
    [] q.ph = "major" -> IF c \in Digits THEN Digit(q, 1, c, "major")
                         ELSE IF c = "." THEN [q EXCEPT !.ph = "dot1"] ELSE ScanBad
    [] q.ph = "dot1"  -> IF c \in Digits THEN Digit(q, 2, c, "minor") ELSE ScanBad
    [] q.ph = "minor" -> IF c \in Digits THEN Digit(q, 2, c, "minor")
                         ELSE IF c = "." THEN [q EXCEPT !.ph = "dot2"] ELSE ScanBad
    [] q.ph = "dot2"  -> IF c \in Digits THEN Digit(q, 3, c, "patch") ELSE ScanBad
    [] q.ph = "patch" -> IF c \in Digits THEN Digit(q, 3, c, "patch")
                         ELSE IF c \in Space THEN [q EXCEPT !.ph = "trail"] ELSE ScanBad
    [] q.ph = "trail" -> IF c \in Space THEN q ELSE ScanBad
    [] OTHER          -> ScanBad

\* the expression without its closing \s*$: a match of a prefix is enough
version_triplet_Unanchored(version) ==
  LET Scan[i \in 0..Len(version)] ==
        IF i = 0 THEN ScanStart
        ELSE CHOOSE r \in {ScanStep(q, version[i]) : q \in {Scan[i - 1]}} : TRUE
      hits == {i \in 0..Len(version) : Scan[i].ph = "patch"}
  IN  IF hits = {} THEN [ok |-> FALSE, v |-> <<0, 0, 0>>]
      ELSE [ok |-> TRUE, v |-> Scan[CHOOSE i \in hits : \A j \in hits : i <= j].v]

\* version_triplet: the three integers of the match; ok = FALSE is the raise
\* (q is bound to the state before character i, computed once)
version_triplet(version) ==
  LET Scan[i \in 0..Len(version)] ==
        IF i = 0 THEN ScanStart
        ELSE CHOOSE r \in {ScanStep(q, version[i]) : q \in {Scan[i - 1]}} : TRUE
  IN  CHOOSE t \in {[ok |-> q.ph \in {"patch", "trail"}, v |-> q.v] :
                     q \in {Scan[Len(version)]}} : TRUE

\* resolve_local: [err, target]; target None is the skip
resolve_local(path_fragment, generated, present) ==
  IF path_fragment = EXPORT_HEADER THEN [err |-> FALSE, target |-> None]
  ELSE IF path_fragment = VERSION_HEADER
  THEN IF generated # None
       THEN LET cand == resolve(generated \o path_fragment)
            IN  IF cand \notin present THEN [err |-> TRUE, target |-> None]
                ELSE [err |-> FALSE, target |-> cand]
       ELSE [err |-> FALSE, target |-> SYNTHESIZE_VERSION]
  ELSE LET cand == resolve(IncludeRoot \o path_fragment)
       IN  IF cand \in present THEN [err |-> FALSE, target |-> cand]
           ELSE [err |-> TRUE, target |-> None]

\* the --version strings of the model
V_Good   == <<"1", ".", "2", ".", "3">>
V_Padded == <<" ", "1", ".", "0", "2", ".", "3", " ">>
V_Suffix == <<"1", ".", "2", ".", "3", "-", "r", "c">>
V_Short  == <<"1", ".", "2">>
Versions == {V_Good, V_Padded, V_Suffix, V_Short}



\* lines the program itself produces
Made(k, src, n, mac, frag) == [k |-> k, src |-> src, n |-> n, mac |-> mac, frag |-> frag]
Blank == Made("blank", "", 0, "none", None)
BeginMarker(line) == Made("begin", line.src, line.n, "none", line.frag)
EndMarker(line)   == Made("end",   line.src, line.n, "none", line.frag)

\* "\n".join(out_lines) spliced into the caller's lines: the empty string
\* is one empty line there
JoinedLines(out_lines) == IF out_lines = <<>> THEN <<Blank>> ELSE out_lines

\* version_text: four #define lines and the empty line its trailing newline
\* leaves when joined (n is the value of an integer macro); ok = FALSE is
\* the raise of version_triplet
version_text(version) ==
  LET t == version_triplet(version)
  IN  [ok   |-> t.ok,
       text |-> << Made("define", "synthesized", t.v[1], "MAJOR", None),
                   Made("define", "synthesized", t.v[2], "MINOR", None),
                   Made("define", "synthesized", t.v[3], "PATCH", None),
                   Made("define", "synthesized", 0, "STRING", None),
                   Blank >>]

SynthMarker == Made("synthmark", "synthesized", 0, "none", None)

\* build_preamble: #pragma once, the two guarded macros with an empty line
\* between, and the empty line its trailing newline leaves when joined
build_preamble ==
  << Made("pragma", "preamble", 1, "none", None),
     Made("pre", "preamble", 2, "none", None),
     Made("pre", "preamble", 3, "none", None),
     Made("pre", "preamble", 4, "none", None),
     Blank,
     Made("pre", "preamble", 6, "none", None),
     Made("pre", "preamble", 7, "none", None),
     Made("pre", "preamble", 8, "none", None),
     Blank >>

\* str.rstrip() of the joined document: trailing empty lines go
Max(S) == CHOOSE x \in S : \A y \in S : y <= x
Min(S) == CHOOSE x \in S : \A y \in S : x <= y

rstrip_lines(ls) ==
  LET solid == {i \in 1..Len(ls) : ls[i].k # "blank"}
  IN  IF solid = {} THEN <<>> ELSE SubSeq(ls, 1, Max(solid))

\* "BYTEWEAVE_VERSION_MAJOR" in body
MentionsMajor(body) == \E i \in 1..Len(body) : body[i].mac \in {"MAJOR", "use_MAJOR"}

(* -------------------------------- state -------------------------------- *)
VARIABLES
  content,    \* the text of every header, by canonical path
  present,    \* the paths that exist on disk now
  entry,      \* args.entry
  generated,  \* args.generated, None when --generated is not given
  version,    \* args.version, a sequence of characters
  pc,         \* "start", "inline", "assemble", "done", "failed"
  seen,       \* the visited set of inline_file
  stack,      \* the active calls of inline_file, innermost last
  body,       \* the result of the outermost inline_file
  outFile,    \* args.out: Prior until written, then the lines written
  exitCode,   \* exit status of the process, NoExit while it runs
  reads       \* how often read_text() was called on each path

vars == <<content, present, entry, generated, version, pc, seen, stack, body,
          outFile, exitCode, reads>>

Prior  == "prior"
NoExit == "running"

\* the --generated argument and what is on disk for it
GeneratedCases ==
  { [arg |-> None,         disk |-> {}],
    [arg |-> GeneratedDir, disk |-> {}],
    [arg |-> GeneratedDir, disk |-> {GeneratedDir}],
    [arg |-> GeneratedDir, disk |-> {GeneratedDir, P_GenVer}] }

Init ==
  /\ content \in Trees
  /\ \E g \in GeneratedCases, e \in SUBSET {P_Entry} :
       /\ generated = g.arg
       /\ present = SourceFiles \cup g.disk \cup e
  /\ entry = P_Entry
  /\ version \in Versions
  /\ pc = "start"
  /\ seen = {}
  /\ stack = <<>>
  /\ body = <<>>
  /\ outFile = Prior
  /\ exitCode = NoExit
  /\ reads = [p \in DOMAIN content |-> 0]

\* the error not caught under __main__: the interpreter exits with 1
Fail_Uncaught ==
  /\ pc' = "failed"
  /\ exitCode' = 1
  /\ UNCHANGED <<content, present, entry, generated, version, outFile>>

\* raise AmalgamationError, caught under __main__: sys.exit(2)
Fail ==
  /\ pc' = "failed"
  /\ exitCode' = 2
  /\ UNCHANGED <<content, present, entry, generated, version, outFile>>

Frame(path) == [path |-> path, st |-> "call", idx |-> 0, out |-> <<>>]

\* main up to the call of inline_file
Start ==
  /\ pc = "start"
  /\ IF entry \notin present \/ (generated # None /\ generated \notin present)
     THEN Fail /\ UNCHANGED <<seen, stack, body, reads>>
     ELSE /\ pc' = "inline"
          /\ seen' = {}
          /\ stack' = <<Frame(entry)>>
          /\ UNCHANGED <<content, present, entry, generated, version, body,
                         outFile, exitCode, reads>>

Top == stack[Len(stack)]
SetTop(fr) == [stack EXCEPT ![Len(stack)] = fr]

\* the visited test left out
AlreadySeen_Never(path, visited) == FALSE

\* path in seen
AlreadySeen(path, visited) == path \in visited

\* seen.add(path) left out
seen_add_Forgotten(visited, path) == visited

\* seen.add(path)
seen_add(visited, path) == visited \cup {path}

\* inline_file from its call to the start of its loop: the visited test,
\* the existence test, seen.add and read_text.  The existence test and the
\* read are one step: the file is not deleted between the two.
Enter ==
  /\ pc = "inline"
  /\ Top.st = "call"
  /\ IF AlreadySeen(Top.path, seen) \/ Top.path = SYNTHESIZE_VERSION
     THEN /\ stack' = SetTop([Top EXCEPT !.st = "ret"])
          /\ UNCHANGED <<content, present, entry, generated, version, pc, seen,
                         body, outFile, exitCode, reads>>
     ELSE IF Top.path \notin present
     THEN Fail /\ UNCHANGED <<seen, stack, body, reads>>
     ELSE /\ seen' = seen_add(seen, Top.path)
          /\ reads' = [reads EXCEPT ![Top.path] = @ + 1]
          /\ stack' = SetTop([Top EXCEPT !.st = "loop", !.idx = 1])
          /\ UNCHANGED <<content, present, entry, generated, version, pc, body,
                         outFile, exitCode>>

\* the frame after one line of the loop that makes no call: out_lines gains
\* the line (keep) or not
Advance(fr, keep, line) ==
  [fr EXCEPT !.idx = @ + 1, !.out = IF keep THEN Append(@, line) ELSE @]

\* one iteration of the loop of inline_file, up to the recursive call
InlineLine ==
  /\ pc = "inline"
  /\ Top.st = "loop"
  /\ Top.idx <= Len(content[Top.path])
  /\ LET line == content[Top.path][Top.idx]
         inc  == parse_include(line)
         r    == resolve_local(inc, generated, present)
     IN  IF is_pragma_once(line)
         THEN /\ stack' = SetTop(Advance(Top, FALSE, line))
              /\ UNCHANGED <<content, present, entry, generated, version, pc,
                             seen, body, outFile, exitCode, reads>>
         ELSE IF inc = None \/ ~is_local_byteweave(inc)
         THEN /\ stack' = SetTop(Advance(Top, TRUE, line))
              /\ UNCHANGED <<content, present, entry, generated, version, pc,
                             seen, body, outFile, exitCode, reads>>
         ELSE IF inc = EXPORT_HEADER
         THEN /\ stack' = SetTop(Advance(Top, FALSE, line))
              /\ UNCHANGED <<content, present, entry, generated, version, pc,
                             seen, body, outFile, exitCode, reads>>
         ELSE IF r.err
         THEN Fail /\ UNCHANGED <<seen, stack, body, reads>>
         ELSE IF r.target = None \/ r.target = SYNTHESIZE_VERSION
         THEN /\ stack' = SetTop(Advance(Top, FALSE, line))
              /\ UNCHANGED <<content, present, entry, generated, version, pc,
                             seen, body, outFile, exitCode, reads>>
         ELSE /\ stack' = Append(SetTop([Top EXCEPT !.out = Append(@, BeginMarker(line))]),
                                 Frame(r.target))
              /\ UNCHANGED <<content, present, entry, generated, version, pc,
                             seen, body, outFile, exitCode, reads>>

\* the result appended after the end marker
Splice_AfterEnd(out_lines, result, line) ==
  (out_lines \o <<EndMarker(line)>>) \o JoinedLines(result)

\* the caller's out_lines once the call returned: the result, the end marker
Splice(out_lines, result, line) == (out_lines \o JoinedLines(result)) \o <<EndMarker(line)>>

\* return of inline_file, to the loop of its caller or to main
Return ==
  /\ pc = "inline"
  /\ \/ Top.st = "ret"
     \/ Top.st = "loop" /\ Top.idx > Len(content[Top.path])
  /\ IF Len(stack) = 1
     THEN /\ body' = Top.out
          /\ stack' = <<>>
          /\ pc' = "assemble"
          /\ UNCHANGED <<content, present, entry, generated, version, seen,
                         outFile, exitCode, reads>>
     ELSE LET caller == stack[Len(stack) - 1]
              line   == content[caller.path][caller.idx]
          IN  /\ stack' = Append(SubSeq(stack, 1, Len(stack) - 2),
                                 [caller EXCEPT !.idx = @ + 1,
                                                !.out = Splice(@, Top.out, line)])
              /\ UNCHANGED <<content, present, entry, generated, version, pc,
                             seen, body, outFile, exitCode, reads>>

\* needs_version of main
needs_version(gen, onDisk, text) ==
  /\ ~(gen # None /\ resolve(gen \o VERSION_HEADER) \in onDisk)
  /\ ~MentionsMajor(text)

\* the pieces of main joined: preamble, the version block if needed, body
Assemble(need, vtext, text) ==
  (build_preamble \o (IF need THEN <<SynthMarker>> \o vtext ELSE <<>>)) \o JoinedLines(text)

\* main after inline_file: the version block, the assembly, the write
Finish ==
  /\ pc = "assemble"
  /\ \E need \in {needs_version(generated, present, body)} :
     \E vt \in {IF need THEN version_text(version) ELSE [ok |-> TRUE, text |-> <<>>]} :
       IF ~vt.ok
       THEN Fail /\ UNCHANGED <<seen, stack, body, reads>>
       ELSE \E pieces \in {Assemble(need, vt.text, body)} :
              /\ outFile' = rstrip_lines(pieces)
              /\ pc' = "done"
              /\ exitCode' = 0
              /\ UNCHANGED <<content, present, entry, generated, version, seen,
                             stack, body, reads>>

\* another process deletes the file inline_file was just called on, after
\* resolve_local (or main) found it and before inline_file looks for it
Vanish ==
  /\ pc = "inline"
  /\ Top.st = "call"
  /\ Top.path \in present
  /\ ~AlreadySeen(Top.path, seen)
  /\ present' = present \ {Top.path}
  /\ UNCHANGED <<content, entry, generated, version, pc, seen, stack, body,
                 outFile, exitCode, reads>>

Next == Start \/ Enter \/ InlineLine \/ Return \/ Finish \/ Vanish

Spec == Init /\ [][Next]_vars

\* the interpreter runs the program to its end; nothing obliges the other
\* process to delete anything
FairSpec == Spec /\ WF_vars(Start \/ Enter \/ InlineLine \/ Return \/ Finish)

(* ------------------------------ properties ----------------------------- *)
Success == pc = "done" /\ exitCode = 0
Ended   == pc \in {"done", "failed"}

IsText(l)    == l.k = "text"
FromFile(l)  == l.k \in {"text", "include"}
Positions(ls, P(_)) == {i \in 1..Len(ls) : P(ls[i])}

\* the concrete file an include line leads to, None when it leads to none
IncludeTarget(line) ==
  IF line.k # "include" \/ line.frag[1] # LOCAL_PREFIX THEN None
  ELSE IF line.frag = EXPORT_HEADER THEN None
  ELSE IF line.frag = VERSION_HEADER
       THEN (IF generated = None THEN None ELSE P_GenVer)
       ELSE resolve(IncludeRoot \o line.frag)

\* the text lines reached from line i of path on, in pre-order depth-first
\* order, every file entered once
RECURSIVE WalkLines(_, _, _)
WalkLines(path, i, visited) ==
  IF i > Len(content[path]) THEN [text |-> <<>>, visited |-> visited]
  ELSE LET line == content[path][i]
           t    == IncludeTarget(line)
       IN  IF IsText(line)
           THEN LET rest == WalkLines(path, i + 1, visited)
                IN  [text |-> <<line>> \o rest.text, visited |-> rest.visited]
           ELSE IF t # None /\ t \notin visited
           THEN LET sub  == WalkLines(t, 1, visited \cup {t})
                    rest == WalkLines(path, i + 1, sub.visited)
                IN  [text |-> sub.text \o rest.text, visited |-> rest.visited]
           ELSE WalkLines(path, i + 1, visited)

PreOrderText == WalkLines(entry, 1, {entry}).text

\* C1: in a successful run the non-include, non-guard lines of every file
\* are in the output at most once, and the output holds them in the order
\* of the pre-order depth-first traversal from the entry file, each file
\* at its first encounter.
C1_OnceAtFirstEncounter ==
  Success =>
    LET t == SelectSeq(outFile, IsText)
    IN  /\ \A i, j \in 1..Len(t) : i # j => t[i] # t[j]
        /\ t = PreOrderText

\* a diamond: the entry includes a.hpp then b.hpp, both include c.hpp
C1_Witness ==
  /\ Success
  /\ Len(content[entry]) >= 5
  /\ content[entry][3].frag = F_A /\ content[entry][5].frag = F_B
  /\ content[P_A][3].frag = F_C /\ content[P_B][2].frag = F_C
  /\ Cardinality(Positions(outFile, LAMBDA l : IsText(l) /\ l.src = "c.hpp")) = 1

DefinesMajor(l) == l.k \in {"text", "define"} /\ l.mac = "MAJOR"

\* C2: every successful run supplies the version macros: its output holds a
\* definition of the major-version macro, from the inlined generated header,
\* from the synthesized block or from another inlined header.
C2_VersionSupplied ==
  Success => Positions(outFile, DefinesMajor) # {}

C4_ExportExcluded ==
  Success => Positions(outFile, LAMBDA l : FromFile(l) /\ l.src = "export.hpp") = {}

\* C5: a successful output holds exactly one #pragma once, its first line,
\* the one of the preamble.
C5_OneGuard ==
  Success =>
    /\ Positions(outFile, LAMBDA l : l.k = "pragma") = {1}
    /\ outFile[1].src = "preamble"

\* the generated version header and local headers were inlined
C5_Witness ==
  Success /\ P_GenVer \in seen /\ P_A \in seen /\ reads[P_GenVer] = 1

InSynthBlock(l) == l.k = "define"

\* C6: no macro the synthesized block defines is defined by an inlined
\* header of the same output as well.
C6_NoDuplicateDefinition ==
  Success =>
    \A i \in Positions(outFile, InSynthBlock) :
      Positions(outFile, LAMBDA l : l.k = "text" /\ l.mac = outFile[i].mac) = {}

\* exactly three non-negative integers separated by dots; white space
\* around them is not counted as a deviation
ThreeIntegers(v) ==
  LET solid == {i \in 1..Len(v) : v[i] \notin Space}
      dots  == {i \in solid : v[i] = "."}
  IN  /\ solid # {} /\ solid = Min(solid)..Max(solid)
      /\ Cardinality(dots) = 2
      /\ \A i \in solid \ dots : v[i] \in Digits
      /\ \A i \in dots : i > Min(solid) /\ i < Max(solid) /\ (i + 1) \notin dots

\* C7 as claimed: every run whose version string is not exactly three
\* non-negative integers separated by dots ends with the fatal error, exit
\* code 2 and no output file, whatever --generated and the body are.
C7_AlwaysValidated ==
  (Ended /\ ~ThreeIntegers(version)) => (pc = "failed" /\ exitCode = 2 /\ outFile = Prior)

\* the version strings of Versions that are three runs of digits separated
\* by dots, white space around them allowed
WellFormedVersions == {V_Good, V_Padded}

GeneratedVersionOnDisk == generated # None /\ P_GenVer \in present
BodyNamesMajor == Positions(body, LAMBDA l : l.mac \in {"MAJOR", "use_MAJOR"}) # {}

\* C7: when the traversal has succeeded, the version string is not well
\* formed, no version header exists in a given generated directory and the
\* body does not contain the major-version macro, the run ends with the
\* fatal error, exit code 2 and no output file; and no run writes a
\* synthesized block for a version string that is not well formed.
C7_ValidatedWhenSynthesized ==
  /\ [][(pc = "assemble" /\ version \notin WellFormedVersions
           /\ ~GeneratedVersionOnDisk /\ ~BodyNamesMajor)
         => (pc' = "failed" /\ exitCode' = 2 /\ outFile' = Prior)]_vars
  /\ [](Success /\ Positions(outFile, InSynthBlock) # {} => version \in WellFormedVersions)

\* a version with a pre-release suffix stopped the run at the synthesis
C7_Witness ==
  /\ pc = "failed" /\ stack = <<>> /\ seen # {}
  /\ version = V_Suffix /\ generated = None /\ outFile = Prior

\* C8: a successful output holds begin markers only for first-time
\* expansions, one for every inlined file but the entry file.
C8_MarkersOnlyForExpansions ==
  Success => Cardinality(Positions(outFile, LAMBDA l : l.k = "begin")) = Cardinality(seen) - 1

Revisit == pc = "inline" /\ Top.st = "call" /\ Top.path \in seen

\* C9: every run ends; the visited set starts empty and only grows; a file
\* is in it before its lines are processed; no file is read twice; and a
\* call on a visited file, still in progress or finished, returns the empty
\* text without an error and without a read.
C9_Terminates ==
  /\ seen = {}
  /\ [][seen \subseteq seen']_vars
  /\ [](\A i \in 1..Len(stack) : stack[i].st = "loop" => stack[i].path \in seen)
  /\ [](\A p \in DOMAIN reads : reads[p] <= 1)
  /\ [][Revisit => (pc' = "inline" /\ reads' = reads /\ seen' = seen
                    /\ stack' = SetTop([Top EXCEPT !.st = "ret"]) /\ Top.out = <<>>)]_vars
  /\ <>Ended

\* a true cycle was traversed to the end: a.hpp includes itself or the entry
C9_Witness ==
  /\ Success
  /\ P_A \in seen
  /\ content[P_A][3].frag \in {F_A, F_Entry}
  /\ Positions(outFile, LAMBDA l : l.k = "begin" /\ l.src = "a.hpp") # {}

SrcOf(path) == content[path][1].src
Foreign(l)  == l.k = "include" /\ l.frag[1] # LOCAL_PREFIX
Marker(l)   == l.k \in {"begin", "end"}

\* C10: in a successful output the text lines and foreign includes of every
\* inlined file stand unmodified, once per occurrence and in the order of
\* the file; the lines and markers that come from one file are in the order
\* of its lines; and the lines of an included file stand between the begin
\* and end marker of an include naming it.
C10_OrderPreserved ==
  Success =>
    /\ \A p \in seen :
         SelectSeq(outFile, LAMBDA l : FromFile(l) /\ l.src = SrcOf(p))
           = SelectSeq(content[p], LAMBDA l : IsText(l) \/ Foreign(l))
    /\ \A i, j \in 1..Len(outFile) :
         (i < j /\ (FromFile(outFile[i]) \/ Marker(outFile[i]))
                /\ (FromFile(outFile[j]) \/ Marker(outFile[j]))
                /\ outFile[i].src = outFile[j].src)
           => outFile[i].n <= outFile[j].n
    /\ \A q \in 1..Len(outFile) :
         (FromFile(outFile[q]) /\ outFile[q].src # SrcOf(entry))
           => \E b \in 1..(q - 1), e \in (q + 1)..Len(outFile) :
                /\ outFile[b].k = "begin" /\ outFile[e].k = "end"
                /\ outFile[b].src = outFile[e].src /\ outFile[b].n = outFile[e].n
                /\ outFile[b].frag[Len(outFile[b].frag)] = outFile[q].src
                /\ \A m \in (b + 1)..(e - 1) : outFile[m].src # outFile[b].src

\* a foreign include passed through from an inlined file, inside markers
C10_Witness ==
  /\ Success
  /\ \E q \in 2..Len(outFile) :
       /\ Foreign(outFile[q]) /\ outFile[q].src = "b.hpp"
       /\ outFile[q - 1].k = "begin"
  /\ \E q \in 1..Len(outFile) : Foreign(outFile[q]) /\ outFile[q].src = SrcOf(entry)

====
